---- MODULE Spec2Model ----
(***************************************************************************)
(* Decentrablog: the Blog contract of contract/src/lib.rs as a state        *)
(* machine.  One action per exported method; the NEAR runtime executes      *)
(* each call atomically and discards every state change of a call that      *)
(* panics.  The transfer promise created by donate is resolved by the       *)
(* runtime in a later, separate step.                                       *)
(*                                                                          *)
(* u64 counters: a counter holding the value c is represented by the        *)
(* integer r with r = c (mod 2^64) and -2^63 <= r < 2^63, so 2^64 - 1 is    *)
(* written -1.  Adding and subtracting 1 commute with this representation.  *)
(* Strings are sequences of bytes; String::len is the number of bytes.      *)
(***************************************************************************)
EXTENDS Integers, Sequences, FiniteSets, TLC

\* ---- bounds of the model
MaxPostId == 2
MaxCommentId == 2
MaxUnderflow == 1

\* ---- inputs
Accounts == {"alice", "bob"}
Deployers == {"alice"}
Str(n) == [i \in 1..n |-> "x"]
Timestamps == {0}
Titles == {<<"T">>}
Bodies == {<<"B">>}
CommentTexts == {Str(9), Str(10)}
Messages == {<<"g", "g">>}
PostIds == 0..MaxPostId
CommentIds == 0..MaxCommentId
Amounts == {0, 1}
MinCommentLen == 10

\* owner .. total_donations: the fields of Blog.
\* overflow_checks: whether the build panics on integer overflow (fixed at
\*   deployment; the profile is not part of the sources).
\* promises: the transfers donate has handed to the runtime, still pending.
\* settled: the resolved transfers, in the order in which they completed.
\* issued: the post ids assigned so far, in order of assignment.
\* assigned: the comment and donation ids assigned so far, in order of
\*   assignment, each with its kind and the post it was assigned for.
\* last: the outcome of the most recent call.
VARIABLES owner, user_posts, posts, next_post_id, total_posts,
          next_comment_id, total_comments, next_donation_id, total_donations,
          overflow_checks, promises, settled, issued, assigned, last

counters == <<next_post_id, total_posts, next_comment_id, total_comments,
              next_donation_id, total_donations>>
blog == <<owner, user_posts, posts, next_post_id, total_posts,
          next_comment_id, total_comments, next_donation_id, total_donations>>
vars == <<owner, user_posts, posts, next_post_id, total_posts,
          next_comment_id, total_comments, next_donation_id, total_donations,
          overflow_checks, promises, settled, issued, assigned, last>>

\* ---- u64 arithmetic of the build: `a + b` and `a - b` panic when the
\* profile has overflow checks and wrap modulo 2^64 otherwise
U64SubOverflows(a, b) == a >= 0 /\ a - b < 0
U64Add(a, b) == a + b
U64Sub(a, b) == a - b

\* ---- UnorderedMap
MapContains(m, k) == k \in DOMAIN m
MapInsert(m, k, v) == [x \in (DOMAIN m) \cup {k} |-> IF x = k THEN v ELSE m[x]]
MapRemove(m, k) == [x \in (DOMAIN m) \ {k} |-> m[x]]
EmptyMap == [x \in {} |-> 0]

\* ---- records
Post(post_id, title, body, author, created_at) ==
    [post_id |-> post_id, title |-> title, body |-> body, author |-> author,
     created_at |-> created_at, comments |-> <<>>, upvotes |-> <<>>,
     downvotes |-> <<>>, donation_logs |-> <<>>]
Comment(comment_id, body, author, created_at) ==
    [comment_id |-> comment_id, body |-> body, author |-> author,
     created_at |-> created_at]
DonationLog(donation_id, amount, donor, created_at, message) ==
    [donation_id |-> donation_id, amount |-> amount, donor |-> donor,
     created_at |-> created_at, message |-> message]

\* the outcome of the call made in the step that led to the current state
Call(op, signer, post_id, result, arg) ==
    [op |-> op, signer |-> signer, post_id |-> post_id, result |-> result,
     arg |-> arg]
NoArg == [k \in {} |-> 0]
\* an id taken from the counter for a comment or a donation log of a post
Assigned(kind, id, post_id) == [kind |-> kind, id |-> id, post_id |-> post_id]

\* a call that panicked: the runtime discards its state changes
Abort(call) ==
    /\ last' = call
    /\ UNCHANGED <<owner, user_posts, posts, next_post_id, total_posts,
                   next_comment_id, total_comments, next_donation_id,
                   total_donations, overflow_checks, promises, settled, issued,
                   assigned>>

Init ==
    /\ owner \in Deployers
    /\ user_posts = EmptyMap
    /\ posts = EmptyMap
    /\ total_posts = 0
    /\ next_post_id = 0
    /\ total_comments = 0
    /\ next_comment_id = 0
    /\ total_donations = 0
    /\ next_donation_id = 0
    /\ overflow_checks \in BOOLEAN
    /\ promises = <<>>
    /\ settled = <<>>
    /\ issued = <<>>
    /\ assigned = <<>>
    /\ last = Call("default", owner, 0, "ok", NoArg)

\* create_post that stores the title as the body and the body as the title
create_post_swapped(signer, now, title, body) ==
    LET post_id == next_post_id
        post == Post(post_id, body, title, signer, now)
    IN /\ next_post_id < MaxPostId
       /\ posts' = MapInsert(posts, post_id, post)
       /\ total_posts' = U64Add(total_posts, 1)
       /\ next_post_id' = U64Add(next_post_id, 1)
       /\ issued' = Append(issued, post_id)
       /\ last' = Call("create_post", signer, post_id, "ok",
                       [title |-> title, body |-> body])
       /\ UNCHANGED <<owner, user_posts, next_comment_id, total_comments,
                      next_donation_id, total_donations, overflow_checks,
                      promises, settled, assigned>>

\* create_post that also enters the new id in the signer's list of user_posts
create_post_indexed(signer, now, title, body) ==
    LET post_id == next_post_id
        post == Post(post_id, title, body, signer, now)
        mine == IF signer \in DOMAIN user_posts THEN user_posts[signer]
                ELSE <<>>
    IN /\ next_post_id < MaxPostId
       /\ posts' = MapInsert(posts, post_id, post)
       /\ user_posts' =
            [a \in (DOMAIN user_posts) \cup {signer} |->
               IF a = signer THEN Append(mine, post_id) ELSE user_posts[a]]
       /\ total_posts' = U64Add(total_posts, 1)
       /\ next_post_id' = U64Add(next_post_id, 1)
       /\ issued' = Append(issued, post_id)
       /\ last' = Call("create_post", signer, post_id, "ok",
                       [title |-> title, body |-> body])
       /\ UNCHANGED <<owner, next_comment_id, total_comments,
                      next_donation_id, total_donations, overflow_checks,
                      promises, settled, assigned>>

\* lib.rs 90-114.  The two additions never panic: a counter only holds a
\* wrapped value (written as a negative number) in a build without overflow
\* checks, where the addition wraps as well.
create_post(signer, now, title, body) ==
    LET post_id == next_post_id
        post == Post(post_id, title, body, signer, now)
    IN /\ next_post_id < MaxPostId
       /\ posts' = MapInsert(posts, post_id, post)
       /\ total_posts' = U64Add(total_posts, 1)
       /\ next_post_id' = U64Add(next_post_id, 1)
       /\ issued' = Append(issued, post_id)
       /\ last' = Call("create_post", signer, post_id, "ok",
                       [title |-> title, body |-> body])
       /\ UNCHANGED <<owner, user_posts, next_comment_id, total_comments,
                      next_donation_id, total_donations, overflow_checks,
                      promises, settled, assigned>>

\* lib.rs 120-122: unwrap of a missing entry panics
get_post(post_id) ==
    IF MapContains(posts, post_id)
    THEN [result |-> "ok", post |-> posts[post_id]]
    ELSE [result |-> "NotFound"]

\* lib.rs 124-130: both unwraps panic on a missing entry
get_posts(signer) ==
    IF ~MapContains(user_posts, signer) THEN [result |-> "NotFound"]
    ELSE IF \E k \in 1..Len(user_posts[signer]) :
               ~MapContains(posts, user_posts[signer][k])
    THEN [result |-> "NotFound"]
    ELSE [result |-> "ok",
          posts |-> [k \in 1..Len(user_posts[signer]) |->
                       posts[user_posts[signer][k]]]]

\* lib.rs 116-118, 132-134, 220-222
get_owner == owner
get_total_posts == total_posts
get_next_post_id == next_post_id

\* delete_post that decrements the counter and leaves the post stored
delete_post_keep(signer, now, post_id) ==
    /\ overflow_checks \/ total_posts > -MaxUnderflow
    /\ IF owner # signer
       THEN Abort(Call("delete_post", signer, post_id, "Unauthorized", NoArg))
       ELSE IF overflow_checks /\ U64SubOverflows(total_posts, 1)
       THEN Abort(Call("delete_post", signer, post_id, "Underflow", NoArg))
       ELSE /\ total_posts' = U64Sub(total_posts, 1)
            /\ last' = Call("delete_post", signer, post_id, "ok", NoArg)
            /\ UNCHANGED <<owner, user_posts, posts, next_post_id,
                           next_comment_id, total_comments, next_donation_id,
                           total_donations, overflow_checks, promises,
                           settled, issued, assigned>>

\* delete_post that hands the freed id back to the allocator
delete_post_reuse(signer, now, post_id) ==
    /\ overflow_checks \/ total_posts > -MaxUnderflow
    /\ IF owner # signer
       THEN Abort(Call("delete_post", signer, post_id, "Unauthorized", NoArg))
       ELSE IF overflow_checks /\ U64SubOverflows(total_posts, 1)
       THEN Abort(Call("delete_post", signer, post_id, "Underflow", NoArg))
       ELSE /\ posts' = MapRemove(posts, post_id)
            /\ total_posts' = U64Sub(total_posts, 1)
            /\ next_post_id' = IF MapContains(posts, post_id)
                               THEN post_id ELSE next_post_id
            /\ last' = Call("delete_post", signer, post_id, "ok", NoArg)
            /\ UNCHANGED <<owner, user_posts, next_comment_id,
                           total_comments, next_donation_id, total_donations,
                           overflow_checks, promises, settled, issued,
                           assigned>>

\* lib.rs 136-140.  UnorderedMap::remove of an absent key removes nothing;
\* the subtraction is made whether or not a post was removed.
delete_post(signer, now, post_id) ==
    /\ overflow_checks \/ total_posts > -MaxUnderflow
    /\ IF owner # signer
       THEN Abort(Call("delete_post", signer, post_id, "Unauthorized", NoArg))
       ELSE IF overflow_checks /\ U64SubOverflows(total_posts, 1)
       THEN Abort(Call("delete_post", signer, post_id, "Underflow", NoArg))
       ELSE /\ posts' = MapRemove(posts, post_id)
            /\ total_posts' = U64Sub(total_posts, 1)
            /\ last' = Call("delete_post", signer, post_id, "ok", NoArg)
            /\ UNCHANGED <<owner, user_posts, next_post_id, next_comment_id,
                           total_comments, next_donation_id, total_donations,
                           overflow_checks, promises, settled, issued,
                           assigned>>

\* lib.rs 161, 174, 212: `self.posts.get(&id).unwrap()` deserializes a copy of
\* the stored post; the statement changes the copy, which is then dropped.
\* Nothing is inserted back into the map.
PushComment_stored(ps, post_id, c) ==
    [ps EXCEPT ![post_id].comments = Append(@, c)]
PushComment(ps, post_id, c) ==
    LET copy == ps[post_id]
        pushed == [copy EXCEPT !.comments = Append(@, c)]
    IN ps
RemoveAt(s, i) == [k \in 1..(Len(s) - 1) |-> IF k < i THEN s[k] ELSE s[k + 1]]
RemoveComment(ps, post_id, index) ==
    LET copy == ps[post_id]
        removed == [copy EXCEPT !.comments = RemoveAt(@, index + 1)]
    IN ps
PushDonationLog_stored(ps, post_id, d) ==
    [ps EXCEPT ![post_id].donation_logs = Append(@, d)]
PushDonationLog(ps, post_id, d) ==
    LET copy == ps[post_id]
        pushed == [copy EXCEPT !.donation_logs = Append(@, d)]
    IN ps

HasComment(post, comment_id) ==
    \E i \in 1..Len(post.comments) : post.comments[i].comment_id = comment_id

\* comment that numbers the comments of each post separately
comment_numbered_per_post(signer, now, post_id, text) ==
    /\ next_comment_id < MaxCommentId
    /\ IF ~MapContains(posts, post_id)
       THEN Abort(Call("comment", signer, post_id, "NotFound", [body |-> text]))
       ELSE IF ~(Len(text) >= MinCommentLen)
       THEN Abort(Call("comment", signer, post_id, "ValidationError",
                       [body |-> text]))
       ELSE LET mine == {k \in 1..Len(assigned) :
                           /\ assigned[k].kind = "comment"
                           /\ assigned[k].post_id = post_id}
                c == Comment(Cardinality(mine), text, signer, now)
            IN /\ next_comment_id' = U64Add(next_comment_id, 1)
               /\ total_comments' = U64Add(total_comments, 1)
               /\ posts' = PushComment(posts, post_id, c)
               /\ assigned' = Append(assigned, Assigned("comment",
                                       c.comment_id, post_id))
               /\ last' = Call("comment", signer, post_id, "ok",
                               [body |-> text])
               /\ UNCHANGED <<owner, user_posts, next_post_id, total_posts,
                              next_donation_id, total_donations,
                              overflow_checks, promises, settled, issued>>

\* lib.rs 142-162
comment(signer, now, post_id, text) ==
    /\ next_comment_id < MaxCommentId
    /\ IF ~MapContains(posts, post_id)
       THEN Abort(Call("comment", signer, post_id, "NotFound", [body |-> text]))
       ELSE IF ~(Len(text) >= MinCommentLen)
       THEN Abort(Call("comment", signer, post_id, "ValidationError",
                       [body |-> text]))
       ELSE LET c == Comment(next_comment_id, text, signer, now)
            IN /\ next_comment_id' = U64Add(next_comment_id, 1)
               /\ total_comments' = U64Add(total_comments, 1)
               /\ posts' = PushComment(posts, post_id, c)
               /\ assigned' = Append(assigned, Assigned("comment",
                                       c.comment_id, post_id))
               /\ last' = Call("comment", signer, post_id, "ok",
                               [body |-> text])
               /\ UNCHANGED <<owner, user_posts, next_post_id, total_posts,
                              next_donation_id, total_donations,
                              overflow_checks, promises, settled, issued>>

\* lib.rs 164-176.  Vec::remove panics when the index is not below the length.
delete_comment(signer, now, post_id, comment_id) ==
    LET arg == [comment_id |-> comment_id]
    IN
    /\ IF owner # signer
       THEN Abort(Call("delete_comment", signer, post_id, "Unauthorized", arg))
       ELSE IF ~MapContains(posts, post_id)
       THEN Abort(Call("delete_comment", signer, post_id, "NotFound", arg))
       ELSE IF ~HasComment(posts[post_id], comment_id)
       THEN Abort(Call("delete_comment", signer, post_id, "NotFound", arg))
       ELSE IF ~(comment_id < Len(posts[post_id].comments))
       THEN Abort(Call("delete_comment", signer, post_id, "IndexOutOfBounds",
                       arg))
       ELSE IF overflow_checks /\ U64SubOverflows(total_comments, 1)
       THEN Abort(Call("delete_comment", signer, post_id, "Underflow", arg))
       ELSE /\ posts' = RemoveComment(posts, post_id, comment_id)
            /\ total_comments' = U64Sub(total_comments, 1)
            /\ last' = Call("delete_comment", signer, post_id, "ok", arg)
            /\ UNCHANGED <<owner, user_posts, next_post_id, total_posts,
                           next_comment_id, next_donation_id, total_donations,
                           overflow_checks, promises, settled, issued,
                           assigned>>

\* save_to_donation_log that uses the donation counters
save_to_donation_log_own_counters(signer, now, post_id, amount, message) ==
    LET donation_log == DonationLog(next_donation_id, amount, signer, now,
                                    message)
    IN /\ next_donation_id' = U64Add(next_donation_id, 1)
       /\ total_donations' = U64Add(total_donations, 1)
       /\ posts' = PushDonationLog(posts, post_id, donation_log)
       /\ UNCHANGED <<next_comment_id, total_comments>>

\* lib.rs 197-218, called by donate while it builds the argument of `then`.
\* The id is taken from next_comment_id, and next_comment_id and
\* total_comments are the counters that are incremented.
save_to_donation_log(signer, now, post_id, amount, message) ==
    LET donation_log == DonationLog(next_comment_id, amount, signer, now,
                                    message)
    IN /\ next_comment_id' = U64Add(next_comment_id, 1)
       /\ total_comments' = U64Add(total_comments, 1)
       /\ posts' = PushDonationLog(posts, post_id, donation_log)
       /\ UNCHANGED <<next_donation_id, total_donations>>

\* number of donations that initiated a transfer so far
Donations == Len(promises) + Len(settled)

\* The promise donate leaves with the runtime: a transfer of `amount` to the
\* post's author, followed by the empty promise on the donor's account that
\* save_to_donation_log returned.  did, post_id and log identify the donation.
TransferPromise_to_donor(did, receiver, amount, donor, post_id, log) ==
    [did |-> did, receiver |-> donor, amount |-> amount,
     then_receiver |-> donor, post_id |-> post_id, log |-> log]
TransferPromise(did, receiver, amount, donor, post_id, log) ==
    [did |-> did, receiver |-> receiver, amount |-> amount,
     then_receiver |-> donor, post_id |-> post_id, log |-> log]

\* lib.rs 178-195.  env::account_balance() is the balance of the contract's
\* account, which already includes the deposit attached to the call.
donate(signer, now, post_id, amount, attached_deposit, account_balance, message) ==
    LET arg == [amount |-> amount, attached_deposit |-> attached_deposit]
    IN
    /\ next_comment_id < MaxCommentId
    /\ account_balance >= attached_deposit
    /\ IF ~MapContains(posts, post_id)
       THEN Abort(Call("donate", signer, post_id, "NotFound", arg))
       ELSE IF ~(amount >= 1)
       THEN Abort(Call("donate", signer, post_id, "ValidationError", arg))
       ELSE IF ~(account_balance >= amount)
       THEN Abort(Call("donate", signer, post_id, "InsufficientFunds", arg))
       ELSE LET author == posts[post_id].author
                log == DonationLog(next_comment_id, amount, signer, now,
                                   message)
            IN /\ save_to_donation_log(signer, now, post_id, amount, message)
               /\ promises' = Append(promises,
                      TransferPromise(Donations, author, amount, signer,
                                      post_id, log))
               /\ assigned' = Append(assigned, Assigned("donation",
                                       log.donation_id, post_id))
               /\ last' = Call("donate", signer, post_id, "ok", arg)
               /\ UNCHANGED <<owner, user_posts, next_post_id, total_posts,
                              overflow_checks, settled, issued>>

\* The runtime resolves a pending transfer, in any order, with success or
\* failure.  The promise chained with `then` has no action and the contract
\* registers no callback method: the contract's state is not touched.
transfer_resolve(i, ok) ==
    LET p == promises[i]
    IN /\ promises' = RemoveAt(promises, i)
       /\ settled' = Append(settled, [did |-> p.did, post_id |-> p.post_id,
                                      ok |-> ok, log |-> p.log])
       /\ last' = Call("transfer_resolve", p.then_receiver, p.post_id,
                       IF ok THEN "ok" ELSE "TransferFailed",
                       [did |-> p.did])
       /\ UNCHANGED <<owner, user_posts, posts, next_post_id, total_posts,
                      next_comment_id, total_comments, next_donation_id,
                      total_donations, overflow_checks, issued,
                      assigned>>

Next ==
    \/ \E signer \in Accounts, now \in Timestamps :
         \/ \E title \in Titles, body \in Bodies :
              create_post(signer, now, title, body)
         \/ \E post_id \in PostIds : delete_post(signer, now, post_id)
         \/ \E post_id \in PostIds, text \in CommentTexts :
              comment(signer, now, post_id, text)
         \/ \E post_id \in PostIds, comment_id \in CommentIds :
              delete_comment(signer, now, post_id, comment_id)
         \/ \E post_id \in PostIds, amount \in Amounts,
               attached_deposit \in Amounts, account_balance \in Amounts,
               message \in Messages :
              donate(signer, now, post_id, amount, attached_deposit,
                     account_balance, message)
    \/ \E i \in 1..Len(promises), ok \in BOOLEAN : transfer_resolve(i, ok)

Spec == Init /\ [][Next]_vars

\* ---- helpers of the properties
RECURSIVE SumOver(_, _)
SumOver(f, S) ==
    IF S = {} THEN 0
    ELSE LET x == CHOOSE y \in S : TRUE IN f[x] + SumOver(f, S \ {x})
StoredComments == SumOver([id \in DOMAIN posts |-> Len(posts[id].comments)],
                          DOMAIN posts)
StoredDonationLogs ==
    SumOver([id \in DOMAIN posts |-> Len(posts[id].donation_logs)],
            DOMAIN posts)
IsAppended(before, after) ==
    /\ Len(after) = Len(before) + 1
    /\ \A k \in 1..Len(before) : after[k] = before[k]
Position(s, x) == {k \in 1..Len(s) : s[k] = x}

\* C1: in every reachable state total_posts equals the number of entries
\* stored in posts.
C1_TotalPostsIsCount == total_posts = Cardinality(DOMAIN posts)

\* C2: the post ids assigned are strictly increasing, none is assigned twice,
\* and next_post_id is greater than every id ever assigned, deleted or not.
C2_PostIdsIncrease ==
    /\ \A i, j \in 1..Len(issued) : i < j => issued[i] < issued[j]
    /\ \A i \in 1..Len(issued) : issued[i] < next_post_id
\* a post was created after the first post had been deleted
C2_Witness ==
    /\ last.op = "create_post"
    /\ Len(issued) >= 2
    /\ ~MapContains(posts, issued[1])

\* C3: delete_post and delete_comment fail with Unauthorized for every signer
\* other than the owner and change nothing; called by the owner on an
\* existing post, respectively an existing comment of an existing post, they
\* succeed.
C3_OwnershipGate ==
    [][last'.op \in {"delete_post", "delete_comment"} =>
        /\ last'.signer # owner =>
             /\ last'.result = "Unauthorized"
             /\ UNCHANGED <<blog, promises>>
        /\ ( /\ last'.op = "delete_post"
             /\ last'.signer = owner
             /\ MapContains(posts, last'.post_id) ) => last'.result = "ok"
        /\ ( /\ last'.op = "delete_comment"
             /\ last'.signer = owner
             /\ MapContains(posts, last'.post_id)
             /\ HasComment(posts[last'.post_id], last'.arg.comment_id) )
             => last'.result = "ok"
      ]_vars

\* C4: when the transfer of a donation fails, no donation log is appended and
\* no counter changes; when it succeeds, exactly one log with the donation's
\* amount, message and donor is appended to the target post and
\* total_donations grows by one.
C4_DonateAtomicity ==
    [][last'.op = "transfer_resolve" =>
        LET d == settled'[Len(settled')]
        IN IF d.ok
           THEN /\ total_donations' = U64Add(total_donations, 1)
                /\ MapContains(posts, d.post_id) =>
                     LET before == posts[d.post_id].donation_logs
                         after == posts'[d.post_id].donation_logs
                     IN /\ IsAppended(before, after)
                        /\ after[Len(after)].amount = d.log.amount
                        /\ after[Len(after)].message = d.log.message
                        /\ after[Len(after)].donor = d.log.donor
                /\ \A id \in DOMAIN posts \ {d.post_id} : posts'[id] = posts[id]
           ELSE UNCHANGED <<posts, counters>>
      ]_vars

\* C5: in every reachable state total_comments equals the number of comments
\* held by the stored posts.
C5_TotalCommentsIsCount == total_comments = StoredComments

\* C6: in every reachable state total_donations equals the number of
\* donation logs held by the stored posts.
C6_TotalDonationsIsCount == total_donations = StoredDonationLogs
\* two transfers succeeded: the post of one is still stored, the post of the
\* other has been deleted
C6_Witness ==
    \E i, j \in 1..Len(settled) :
       /\ settled[i].ok /\ MapContains(posts, settled[i].post_id)
       /\ settled[j].ok /\ ~MapContains(posts, settled[j].post_id)

\* C7: comment on an existing post fails with ValidationError and changes
\* nothing when the body is shorter than 10; otherwise it succeeds, the stored
\* post has one more comment, the new last one with the signer as author and
\* the given body, and total_comments is one higher.
C7_AddComment ==
    [][(last'.op = "comment" /\ MapContains(posts, last'.post_id)) =>
        IF Len(last'.arg.body) < MinCommentLen
        THEN /\ last'.result = "ValidationError"
             /\ UNCHANGED <<blog, promises>>
        ELSE LET before == posts[last'.post_id].comments
                 after == posts'[last'.post_id].comments
             IN /\ last'.result = "ok"
                /\ IsAppended(before, after)
                /\ after[Len(after)].author = last'.signer
                /\ after[Len(after)].body = last'.arg.body
                /\ total_comments' = U64Add(total_comments, 1)
      ]_vars

\* C8: donate fails with NotFound when the post does not exist, with
\* ValidationError when amount < 1 and with InsufficientFunds when the
\* attached deposit is less than amount; in these cases no transfer is
\* initiated and nothing changes.
C8_DonateValidation ==
    [][last'.op = "donate" =>
        LET exists == MapContains(posts, last'.post_id)
            amount == last'.arg.amount
            attached == last'.arg.attached_deposit
        IN /\ ~exists => last'.result = "NotFound"
           /\ (exists /\ amount < 1) => last'.result = "ValidationError"
           /\ (exists /\ amount >= 1 /\ attached < amount)
                => last'.result = "InsufficientFunds"
           /\ (~exists \/ amount < 1 \/ attached < amount)
                => UNCHANGED <<blog, promises>>
      ]_vars

\* C9: the call of donate itself records nothing: the step that initiates
\* the transfer leaves the stored posts and all counters as they were, so
\* that they show no trace of the donation while its transfer is pending.
C9_NothingRecordedWhilePending ==
    [][(last'.op = "donate" /\ last'.result = "ok") =>
        /\ Len(promises') = Len(promises) + 1
        /\ UNCHANGED <<posts, counters>>
      ]_vars

\* C10: the logs of two donations to the same post whose transfers both
\* succeeded appear in the post's donation_logs in the order in which the
\* transfers completed.
C10_CompletionOrder ==
    \A i, j \in 1..Len(settled) :
       ( /\ i < j
         /\ settled[i].ok /\ settled[j].ok
         /\ settled[i].post_id = settled[j].post_id
         /\ MapContains(posts, settled[i].post_id) ) =>
         LET logs == posts[settled[i].post_id].donation_logs
         IN \E a \in Position(logs, settled[i].log),
               b \in Position(logs, settled[j].log) : a < b

\* C11: create_post called with next_post_id = n succeeds; afterwards
\* get_post(n) returns a post with id n, the given title and body, the signer
\* as author and empty comments, upvotes, downvotes and donation_logs;
\* total_posts is one higher, next_post_id is n + 1 and every other stored
\* post is unchanged.
C11_CreatePost ==
    [][last'.op = "create_post" =>
        LET n == last'.post_id
            got == get_post(last.post_id)'
        IN /\ n = next_post_id
           /\ last'.result = "ok"
           /\ got.result = "ok"
           /\ got.post.post_id = n
           /\ got.post.title = last'.arg.title
           /\ got.post.body = last'.arg.body
           /\ got.post.author = last'.signer
           /\ got.post.comments = <<>>
           /\ got.post.upvotes = <<>>
           /\ got.post.downvotes = <<>>
           /\ got.post.donation_logs = <<>>
           /\ get_total_posts' = U64Add(get_total_posts, 1)
           /\ get_next_post_id' = n + 1
           /\ DOMAIN posts' = (DOMAIN posts) \cup {n}
           /\ \A id \in (DOMAIN posts) \ {n} : posts'[id] = posts[id]
      ]_vars
\* a second post has just been created by another account than the author of
\* the first, which is still stored
C11_Witness ==
    /\ last.op = "create_post"
    /\ last.post_id = 1
    /\ MapContains(posts, 0)
    /\ MapContains(posts, 1)
    /\ posts[0].author # posts[1].author

C13_DeleteAtZeroUnderflows ==
    [][( /\ last'.op = "delete_post"
         /\ last'.signer = owner
         /\ total_posts = 0 ) =>
        /\ last'.result = "Underflow"
        /\ UNCHANGED <<blog, promises>>
      ]_vars

\* C14: comment ids and donation ids come from a global, increasing counter,
\* whatever the post: within each kind no id is assigned twice and every
\* newly assigned id is greater than all ids of that kind assigned before.
C14_IdsIncrease ==
    \A i, j \in 1..Len(assigned) :
       (i < j /\ assigned[i].kind = assigned[j].kind)
          => assigned[i].id < assigned[j].id
\* two comments have been added to two different posts
C14_Witness ==
    \E i, j \in 1..Len(assigned) :
       /\ i < j
       /\ assigned[i].kind = "comment" /\ assigned[j].kind = "comment"
       /\ assigned[i].post_id # assigned[j].post_id

\* the comments a post contains for its readers: those a successful comment
\* call appended to it
Commented(post_id, comment_id) ==
    \E k \in 1..Len(assigned) :
       assigned[k] = Assigned("comment", comment_id, post_id)

\* C15: delete_comment(post_id, comment_id) by the owner on an existing post
\* that contains a comment with that id removes the element at offset
\* comment_id of the post's comments and decrements total_comments; when no
\* comment of the post has that id it fails with NotFound and changes nothing.
C15_DeleteComment ==
    [][( /\ last'.op = "delete_comment"
         /\ last'.signer = owner
         /\ MapContains(posts, last'.post_id) ) =>
        LET pid == last'.post_id
            cid == last'.arg.comment_id
        IN IF Commented(pid, cid) \/ HasComment(posts[pid], cid)
           THEN /\ last'.result = "ok"
                /\ posts'[pid].comments = RemoveAt(posts[pid].comments, cid + 1)
                /\ total_comments' = U64Sub(total_comments, 1)
           ELSE /\ last'.result = "NotFound"
                /\ UNCHANGED <<blog, promises>>
      ]_vars

\* C16: a donate that passes validation initiates exactly one transfer, of
\* the given amount, to the author of the post as stored when the call is
\* made; no other step initiates a transfer.
C16_OneTransferToAuthor ==
    [][IF last'.op = "donate" /\ last'.result = "ok"
       THEN /\ IsAppended(promises, promises')
            /\ promises'[Len(promises')].receiver = posts[last'.post_id].author
            /\ promises'[Len(promises')].amount = last'.arg.amount
       ELSE \A k \in 1..Len(promises') : Position(promises, promises'[k]) # {}
      ]_vars
\* a transfer to the author has just been initiated by another account
C16_Witness ==
    /\ last.op = "donate"
    /\ last.result = "ok"
    /\ promises # <<>>
    /\ promises[Len(promises)].receiver # last.signer
    /\ promises[Len(promises)].receiver = posts[last.post_id].author

StoredCopies(log) ==
    SumOver([id \in DOMAIN posts |->
               Cardinality(Position(posts[id].donation_logs, log))],
            DOMAIN posts)

\* C17: a donation whose transfer is pending is not recorded; once its
\* transfer has completed it is recorded, exactly once, if the transfer
\* succeeded, and never recorded if the transfer failed.
C17_DonationStateMachine ==
    /\ \A k \in 1..Len(promises) : StoredCopies(promises[k].log) = 0
    /\ \A k \in 1..Len(settled) :
          IF settled[k].ok
          THEN MapContains(posts, settled[k].post_id)
                  => StoredCopies(settled[k].log) = 1
          ELSE StoredCopies(settled[k].log) = 0

\* C18: user_posts is empty in every reachable state and get_posts fails for
\* every signer.
C18_UserPostsEmpty ==
    /\ user_posts = EmptyMap
    /\ \A a \in Accounts : get_posts(a).result = "NotFound"
\* an account has just created its second post; both are stored
C18_Witness ==
    /\ last.op = "create_post"
    /\ last.result = "ok"
    /\ Cardinality({id \in DOMAIN posts : posts[id].author = last.signer}) = 2

\* C19: every stored post has empty comments, upvotes, downvotes and
\* donation_logs, and no delete_comment succeeds.
C19_NothingStoredInPosts ==
    /\ \A id \in DOMAIN posts :
          /\ posts[id].comments = <<>>
          /\ posts[id].upvotes = <<>>
          /\ posts[id].downvotes = <<>>
          /\ posts[id].donation_logs = <<>>
    /\ last.op = "delete_comment" => last.result # "ok"
\* the owner has just tried to delete a comment that was added to a stored
\* post, which has also received a donation whose transfer succeeded
C19_Witness ==
    /\ last.op = "delete_comment"
    /\ last.signer = owner
    /\ MapContains(posts, last.post_id)
    /\ Commented(last.post_id, last.arg.comment_id)
    /\ \E k \in 1..Len(settled) :
          settled[k].ok /\ settled[k].post_id = last.post_id

\* C20: next_donation_id and total_donations are 0 in every state; a donate
\* that passes validation increments next_comment_id and total_comments in
\* the call itself, and the completion of the transfer changes no counter.
C20_DonationCounters ==
    [][/\ next_donation_id = 0 /\ total_donations = 0
       /\ next_donation_id' = 0 /\ total_donations' = 0
       /\ (last'.op = "donate" /\ last'.result = "ok") =>
            /\ next_comment_id' = U64Add(next_comment_id, 1)
            /\ total_comments' = U64Add(total_comments, 1)
       /\ last'.op = "transfer_resolve" => UNCHANGED counters
      ]_vars
\* the transfer of a donation has just failed
C20_Witness ==
    /\ last.op = "transfer_resolve"
    /\ last.result = "TransferFailed"
    /\ next_comment_id >= 1
====
